---------------------------- MODULE Spec2Model ----------------------------
(***************************************************************************)
(* Model of the karabagoo repository:                                      *)
(*   - lisans_olusturucu.py : the licence-key generator (rolling hash,     *)
(*     5-bit alphabet encoding, key formatting, interactive loop);         *)
(*   - sinav_analiz_FINAL/app.py : the session-protected web application.  *)
(*                                                                         *)
(* Conventions.  A Python str is a sequence of Unicode code points and a   *)
(* bytes object a sequence of numbers in 0..255.  A 32-bit value is a      *)
(* record [hi, lo] of two 16-bit halves (value = hi * 65536 + lo), since   *)
(* the model checker's integers are narrower than Python's.  Python's      *)
(* 0-based index k is the 1-based index k + 1 here.                        *)
(***************************************************************************)
EXTENDS Integers, Sequences, FiniteSets, TLC

VARIABLES
    \* the module namespace of lisans_olusturucu.py: SCHOOL_CODE, SECRET_KEY, CHARS
    globals,
    \* a library caller of generate_license_key: the call to make, the calls made
    args, calls,
    \* one call of generate_license_key / generate_verification_code, line by line
    s_pc, s_args, month_day, verification, s_result, s_raised,
    c_year, c_month_day, input_str, bytes_data, pos, hash_val, code, i,
    \* main(): its locals, what input() met, what it printed
    pc, year, month, day, license_key, again, entered, printed, called, exit_by,
    \* the web application: session cookie, tables, the last request and response
    session, users, analizler, request, response, body_ran

call_vars  == <<args, calls>>
step_vars  == <<s_pc, s_args, month_day, verification, s_result, s_raised,
                c_year, c_month_day, input_str, bytes_data, pos, hash_val, code, i>>
main_vars  == <<pc, year, month, day, license_key, again, entered, printed,
                called, exit_by>>
web_vars   == <<session, users, analizler, request, response, body_ran>>
vars       == <<globals, call_vars, step_vars, main_vars, web_vars>>

\* A local that is not bound yet holds a placeholder of its type (0, <<>>, -1);
\* no action reads a local before the line that assigns it has run.  An optional
\* record is <<>> (absent) or <<r>>.

\* What a call did: it returned a value (raised is ""), or it raised an
\* exception (raised is the name of its class) and returned nothing.
Returned(v) == [raised |-> "", result |-> v]
Raised(e)   == [raised |-> e, result |-> <<>>]

-----------------------------------------------------------------------------
(* Python text primitives *)

\* str(n) for an int n: decimal digits, '-' (45) before a negative number.
RECURSIVE Digits(_)
Digits(n) == IF n < 10 THEN <<48 + n>> ELSE Digits(n \div 10) \o <<48 + (n % 10)>>

str(n) == IF n < 0 THEN <<45>> \o Digits(-n) ELSE Digits(n)

\* Variant: the width is dropped, format(n, "d").
Format02dNoPad(n) == str(n)

\* format(n, "02d"): sign-aware zero padding to a minimum width of 2.
Format02d(n) == IF Len(str(n)) < 2 THEN <<48>> \o str(n) ELSE str(n)

\* Variant: one byte per character, its code point cut to 8 bits.
Utf8CharLowByte(cp) == Returned(<<cp % 256>>)

\* A surrogate code point, U+D800..U+DFFF: legal in a str, not encodable.
IsSurrogate(cp) == 55296 <= cp /\ cp <= 57343

\* str.encode('utf-8') of one code point
Utf8Char(cp) ==
    IF IsSurrogate(cp) THEN Raised("UnicodeEncodeError")
    ELSE IF cp < 128 THEN Returned(<<cp>>)
    ELSE IF cp < 2048 THEN Returned(<<192 + (cp \div 64), 128 + (cp % 64)>>)
    ELSE IF cp < 65536
         THEN Returned(<<224 + (cp \div 4096), 128 + ((cp \div 64) % 64), 128 + (cp % 64)>>)
    ELSE Returned(<<240 + (cp \div 262144), 128 + ((cp \div 4096) % 64),
                    128 + ((cp \div 64) % 64), 128 + (cp % 64)>>)

\* str.encode('utf-8'): the bytes of all characters, or the exception of the
\* first character that has none.
RECURSIVE encode_utf8(_)
encode_utf8(s) ==
    IF s = <<>> THEN Returned(<<>>)
    ELSE LET h == Utf8Char(Head(s))
         IN  IF h.raised # "" THEN h
             ELSE LET t == encode_utf8(Tail(s))
                  IN  IF t.raised # "" THEN t ELSE Returned(h.result \o t.result)

-----------------------------------------------------------------------------
(* lisans_olusturucu.py: the globals, as lines 8-10 bind them.  The functions *)
(* look them up in the module namespace each time they run.                  *)

SCHOOL_CODE == <<75, 66, 79, 65>>                                    \* "KBOA"
SECRET_KEY ==                                                        \* "HatipoğluÖmerAkarsel2024"
    <<72, 97, 116, 105, 112, 111, 287, 108, 117, 214, 109, 101,
      114, 65, 107, 97, 114, 115, 101, 108, 50, 48, 50, 52>>

CHARS ==                                                             \* "ABCDEFGHJKLMNPQRSTUVWXYZ23456789"
    <<65, 66, 67, 68, 69, 70, 71, 72, 74, 75, 76, 77, 78, 80, 81, 82,
      83, 84, 85, 86, 87, 88, 89, 90, 50, 51, 52, 53, 54, 55, 56, 57>>

\* The module namespace once the module is loaded.
ModuleGlobals == [SCHOOL_CODE |-> SCHOOL_CODE, SECRET_KEY |-> SECRET_KEY, CHARS |-> CHARS]

GlobInit == globals = ModuleGlobals

-----------------------------------------------------------------------------
(* lisans_olusturucu.py: generate_verification_code.  An operator named ...In *)
(* takes the module namespace g it reads the globals from; the operator with  *)
(* the function's own name reads the namespace as loaded.                     *)

W16 == 65536

\* hash_val = 0
HashZero == [hi |-> 0, lo |-> 0]

\* Variant: (hash_val << 5) + hash_val + byte, multiplier 33.
HashStepPlus(h, byte) ==
    LET lo1 == (h.lo * 33) + byte
        hi1 == (h.hi * 33) + (lo1 \div 65536)
    IN  [hi |-> hi1 % 65536, lo |-> lo1 % 65536]

\* ((hash_val << 5) - hash_val + byte) & 0xFFFFFFFF, on 16-bit halves: the shift
\* and the subtraction are exact (Python's integers do not wrap), the mask drops
\* everything above bit 31.
HashStep(h, byte) ==
    LET sl  == h.lo * 32
        sh  == (h.hi * 32) + (sl \div W16)
        lo1 == ((sl % W16) - h.lo) + byte
        hi1 == (sh - h.hi) + (lo1 \div W16)
    IN  [hi |-> hi1 % W16, lo |-> lo1 % W16]

\* for byte in bytes_data: ...   The values hash_val takes: tr[1] is the initial
\* 0, tr[k + 1] the value after byte k; tr is extended until bs is exhausted.
RECURSIVE HashTrace(_, _)
HashTrace(tr, bs) ==
    IF Len(tr) > Len(bs) THEN tr
    ELSE HashTrace(Append(tr, HashStep(tr[Len(tr)], bs[Len(tr)])), bs)

\* hash_val when the loop of lines 18-19 ends
HashOf(bs) == LET tr == HashTrace(<<HashZero>>, bs) IN tr[Len(tr)]

\* (hash_val >> n) & 31 for 0 <= n < 32
ShiftAnd31(h, n) ==
    IF n < 16 THEN ((h.lo \div (2^n)) + ((h.hi % (2^n)) * (2^(16 - n)))) % 32
    ELSE (h.hi \div (2^(n - 16))) % 32

\* Variant: the fields are taken 6 bits apart.
CodeCharInStride6(g, h, k) == g.CHARS[ShiftAnd31(h, k * 6) + 1]

\* CHARS[(hash_val >> (i * 5)) & 31]
CodeCharIn(g, h, k) == g.CHARS[ShiftAnd31(h, k * 5) + 1]
CodeChar(h, k) == CodeCharIn(ModuleGlobals, h, k)

\* f"{SCHOOL_CODE}{year}{month_day}{SECRET_KEY}"
InputStrIn(g, yr, md) == g.SCHOOL_CODE \o yr \o md \o g.SECRET_KEY
InputStr(yr, md) == InputStrIn(ModuleGlobals, yr, md)

\* The call as a whole: line 15 raises what encode raises, otherwise the four
\* characters of lines 21-25 are returned.
VerificationCodeIn(g, yr, md) ==
    LET b == encode_utf8(InputStrIn(g, yr, md))
        h == HashOf(b.result)
    IN  IF b.raised # "" THEN Raised(b.raised)
        ELSE Returned([k \in 1..4 |-> CodeCharIn(g, h, k - 1)])

generate_verification_code(yr, md) == VerificationCodeIn(ModuleGlobals, yr, md)

-----------------------------------------------------------------------------
(* lisans_olusturucu.py: generate_license_key *)

Dash == <<45>>
KBOA == <<75, 66, 79, 65>>      \* the literal "KBOA" of the returned f-string

\* The call as a whole: an exception of line 30 leaves the function,
\* otherwise line 31 returns the key.
LicenseKeyIn(g, y, m, d) ==
    LET md == Format02d(m) \o Format02d(d)
        v  == VerificationCodeIn(g, str(y), md)
    IN  IF v.raised # "" THEN Raised(v.raised)
        ELSE Returned(KBOA \o Dash \o str(y) \o Dash \o md \o Dash \o v.result)

generate_license_key(y, m, d) == LicenseKeyIn(ModuleGlobals, y, m, d)

-----------------------------------------------------------------------------
(* The ranges main() accepts (lisans_olusturucu.py lines 49-57) *)

MinYear  == 2024
MaxYear  == 2100
MinMonth == 1
MaxMonth == 12
MinDay   == 1
MaxDay   == 31

ValidDate(y, m, d) == /\ MinYear <= y /\ y <= MaxYear
                      /\ MinMonth <= m /\ m <= MaxMonth
                      /\ MinDay <= d /\ d <= MaxDay

-----------------------------------------------------------------------------
(* A library caller: generate_license_key called directly, with any integers *)

\* How far outside the accepted ranges the directly called dates go.
Margin == 1
\* How many calls a caller's history keeps.
MaxCalls == 3

KeyYears  == ((MinYear - Margin)..(MaxYear + Margin)) \cup {-1, 0, 999, 10000}
KeyMonths == ((MinMonth - Margin)..(MaxMonth + Margin)) \cup {-12, -1, 100}
KeyDays   == ((MinDay - Margin)..(MaxDay + Margin)) \cup {-12, -1, 100}

\* The dates of a caller that calls repeatedly: two that share a code, the
\* known vector, a neighbour, and dates main() would have rejected.
CallDates == {<<2024, 2, 10>>, <<2095, 1, 6>>, <<2027, 1, 15>>, <<2024, 2, 11>>,
              <<2023, 0, 32>>, <<2101, 13, 0>>}

CallIdle == args = <<>> /\ calls = <<>>

\* Variant: every call rotates the secret by one character.
CallRotatingSecret(y, m, d) ==
    /\ calls' = Append(calls, [year |-> y, month |-> m, day |-> d,
                               raised |-> LicenseKeyIn(globals, y, m, d).raised,
                               result |-> LicenseKeyIn(globals, y, m, d).result])
    /\ globals' = [globals EXCEPT !.SECRET_KEY = Tail(@) \o <<Head(@)>>]
    /\ UNCHANGED <<args, step_vars, main_vars, web_vars>>

\* Variant: the function checks the ranges itself and raises.
CallValidating(y, m, d) ==
    /\ calls' = Append(calls,
                       IF ValidDate(y, m, d)
                       THEN [year |-> y, month |-> m, day |-> d,
                             raised |-> LicenseKeyIn(globals, y, m, d).raised,
                             result |-> LicenseKeyIn(globals, y, m, d).result]
                       ELSE [year |-> y, month |-> m, day |-> d,
                             raised |-> "InvalidDateComponent", result |-> <<>>])
    /\ UNCHANGED <<args, globals, step_vars, main_vars, web_vars>>

\* One call generate_license_key(y, m, d): the exception it raised ("": none)
\* and what it returned.  The function assigns no global.
Call(y, m, d) ==
    /\ calls' = Append(calls, [year |-> y, month |-> m, day |-> d,
                               raised |-> LicenseKeyIn(globals, y, m, d).raised,
                               result |-> LicenseKeyIn(globals, y, m, d).result])
    /\ UNCHANGED <<args, globals, step_vars, main_vars, web_vars>>

CallArgs == /\ args # <<>>
            /\ calls = <<>>
            /\ Call(args[1].year, args[1].month, args[1].day)

CallAny == /\ args = <<>>
           /\ Len(calls) < MaxCalls
           /\ \E dt \in CallDates : Call(dt[1], dt[2], dt[3])

-----------------------------------------------------------------------------
(* One call, line by line.  s_pc names the line about to run:               *)
(*   L29, L30, L31 of generate_license_key,                                 *)
(*   L14, L18, L22 of generate_verification_code;                           *)
(* "done" once the call has returned, "raised" once an exception has left it. *)

StepYears == {2024, 2027, 2095, 2100}
StepDates == (StepYears \X (MinMonth..MaxMonth) \X (MinDay..MaxDay))
                 \cup {<<2023, 0, 32>>, <<-1, -1, 100>>, <<10000, 13, 0>>}
\* Arguments of a direct call of generate_verification_code: "", "abc", "2027",
\* "0115", strings of 2-, 3- and 4-byte characters, and strings that hold a
\* lone surrogate.
StepStrings == {<<>>, <<97, 98, 99>>, <<50, 48, 50, 55>>, <<48, 49, 49, 53>>,
                <<287>>, <<8364, 214>>, <<128512>>, <<55296>>, <<120, 57343, 121>>}

\* Locals not bound yet.
StepUnbound == /\ month_day = <<>> /\ verification = <<>> /\ s_result = <<>>
               /\ s_raised = ""
               /\ input_str = <<>> /\ bytes_data = <<>> /\ pos = 0
               /\ hash_val = HashZero /\ code = <<>> /\ i = -1

StepIdle == /\ s_pc = "idle" /\ s_args = <<>>
            /\ c_year = <<>> /\ c_month_day = <<>>
            /\ StepUnbound

\* generate_license_key(year, month, day) is entered
StepInitKey == /\ s_pc = "L29"
               /\ \E dt \in StepDates :
                     s_args = <<[year |-> dt[1], month |-> dt[2], day |-> dt[3]]>>
               /\ c_year = <<>> /\ c_month_day = <<>>
               /\ StepUnbound

\* generate_verification_code(year, month_day) is entered directly
StepInitCode == /\ s_pc = "L14"
                /\ s_args = <<>>
                /\ c_year \in StepStrings /\ c_month_day \in StepStrings
                /\ StepUnbound

StepOthers == <<globals, call_vars, main_vars, web_vars>>

\* line 29: month_day = f"{month:02d}{day:02d}"
FormatMonthDay ==
    /\ s_pc = "L29"
    /\ month_day' = Format02d(s_args[1].month) \o Format02d(s_args[1].day)
    /\ s_pc' = "L30"
    /\ UNCHANGED <<s_args, verification, s_result, s_raised, c_year, c_month_day, input_str,
                   bytes_data, pos, hash_val, code, i, StepOthers>>

\* line 30, the call: generate_verification_code(str(year), month_day)
EnterCode ==
    /\ s_pc = "L30"
    /\ c_year' = str(s_args[1].year)
    /\ c_month_day' = month_day
    /\ s_pc' = "L14"
    /\ UNCHANGED <<s_args, month_day, verification, s_result, s_raised, input_str,
                   bytes_data, pos, hash_val, code, i, StepOthers>>

\* lines 14-17: input_str, bytes_data, hash_val = 0.  When encode raises at
\* line 15 the exception leaves generate_verification_code and, through line
\* 30, generate_license_key: neither function has a try.
Encode ==
    /\ s_pc = "L14"
    /\ input_str' = InputStrIn(globals, c_year, c_month_day)
    /\ LET b == encode_utf8(InputStrIn(globals, c_year, c_month_day))
       IN  IF b.raised # ""
           THEN /\ s_raised' = b.raised
                /\ s_pc' = "raised"
                /\ UNCHANGED <<bytes_data, hash_val, pos>>
           ELSE /\ bytes_data' = b.result
                /\ hash_val' = HashZero
                /\ pos' = 0
                /\ s_pc' = "L18"
                /\ UNCHANGED s_raised
    /\ UNCHANGED <<s_args, month_day, verification, s_result, c_year, c_month_day,
                   code, i, StepOthers>>

\* lines 18-19: one iteration over bytes_data (pos bytes are already folded)
FoldByte ==
    /\ s_pc = "L18"
    /\ pos < Len(bytes_data)
    /\ hash_val' = HashStep(hash_val, bytes_data[pos + 1])
    /\ pos' = pos + 1
    /\ UNCHANGED <<s_pc, s_args, month_day, verification, s_result, s_raised, c_year,
                   c_month_day, input_str, bytes_data, code, i, StepOthers>>

\* line 21: code = "", once the bytes are exhausted
StartCode ==
    /\ s_pc = "L18"
    /\ pos = Len(bytes_data)
    /\ code' = <<>>
    /\ s_pc' = "L22"
    /\ UNCHANGED <<s_args, month_day, verification, s_result, s_raised, c_year, c_month_day,
                   input_str, bytes_data, pos, hash_val, i, StepOthers>>

\* for i in range(4): i is -1 until the first iteration binds it
RangeStop == 4
NextI == i + 1

\* lines 22-23: one iteration, code += CHARS[(hash_val >> (i * 5)) & 31]
EmitChar ==
    /\ s_pc = "L22"
    /\ NextI < RangeStop
    /\ i' = NextI
    /\ code' = Append(code, CodeCharIn(globals, hash_val, NextI))
    /\ UNCHANGED <<s_pc, s_args, month_day, verification, s_result, s_raised, c_year,
                   c_month_day, input_str, bytes_data, pos, hash_val, StepOthers>>

\* line 25: return code, to line 30 of generate_license_key or to the direct caller
ReturnCode ==
    /\ s_pc = "L22"
    /\ ~(NextI < RangeStop)
    /\ IF s_args = <<>>
       THEN s_result' = code /\ s_pc' = "done" /\ UNCHANGED verification
       ELSE verification' = code /\ s_pc' = "L31" /\ UNCHANGED s_result
    /\ UNCHANGED <<s_args, month_day, s_raised, c_year, c_month_day, input_str,
                   bytes_data, pos, hash_val, code, i, StepOthers>>

\* line 31: return f"KBOA-{year}-{month_day}-{verification}"
ReturnKey ==
    /\ s_pc = "L31"
    /\ s_result' = KBOA \o Dash \o str(s_args[1].year) \o Dash \o month_day
                        \o Dash \o verification
    /\ s_pc' = "done"
    /\ UNCHANGED <<s_args, month_day, verification, s_raised, c_year, c_month_day,
                   input_str, bytes_data, pos, hash_val, code, i, StepOthers>>

-----------------------------------------------------------------------------
(* lisans_olusturucu.py: main().  pc names where main() stands:              *)
(*   "banner"     line 34, nothing printed yet                                *)
(*   "line35" .. "line38"                                                     *)
(*                before the print() of that line of the banner               *)
(*   "top"        line 41, in the loop, before the try                        *)
(*   "prompted"   line 41 has printed, the try is not entered                 *)
(*   "year", "month", "day", "again"                                          *)
(*                in the input() of line 44, 45, 46, 71                       *)
(*   "year_read", "month_read", "day_read", "again_read"                      *)
(*                input() has returned the line, nothing is bound from it     *)
(*   "tests"      line 49: day is bound, no test is made                      *)
(*   "line50", "line53", "line56"                                             *)
(*                a test has failed, its message is not printed               *)
(*   "continue"   line 51, 54 or 57: the message is printed, still in the try *)
(*   "calling"    line 60, in generate_license_key                            *)
(*   "show"       line 62: license_key is bound, nothing of it printed        *)
(*   "line63" .. "line68"                                                     *)
(*                before the print() of that line                             *)
(*   "answer"     line 72: again is bound                                     *)
(*   "line74"     the answer is 'e', print() is not called yet                *)
(*   "next"       line 74 has printed, still in the try                       *)
(*   "handler"    line 77, in except ValueError, nothing printed              *)
(*   "quitting"   lines 79-80, in except KeyboardInterrupt, nothing printed   *)
(*   "ending"     line 82, after the loop, nothing printed                    *)
(*   "returning"  line 82 has printed, main() has not returned                *)
(*   "exited"     main() has returned                                         *)
(*   "crashed"    an exception has left main()                                *)

\* int(line).  White space (str.isspace characters other than the separators
\* U+001C..U+001F) is stripped from both ends; one sign may follow; then come
\* decimal digits of any script (the characters of category Nd of Unicode 14.0,
\* which lie in runs of ten from a zero), single underscores between digits.
\* A line that is not of this form raises ValueError, and so does one of more
\* than MaxStrDigits digits (sys.int_info.default_max_str_digits).
IsSpace(c) == \/ (9 <= c /\ c <= 13) \/ c = 32
              \/ (c > 127 /\ c \in ({133, 160, 5760} \cup (8192..8202)
                                    \cup {8232, 8233, 8239, 8287, 12288}))

DecimalZeros ==
    { 48, 1632, 1776, 1984, 2406, 2534, 2662, 2790, 2918, 3046,
      3174, 3302, 3430, 3558, 3664, 3792, 3872, 4160, 4240, 6112,
      6160, 6470, 6608, 6784, 6800, 6992, 7088, 7232, 7248, 42528,
      43216, 43264, 43472, 43504, 43600, 44016, 65296, 66720, 68912, 69734,
      69872, 69942, 70096, 70384, 70736, 70864, 71248, 71360, 71472, 71904,
      72016, 72784, 73040, 73120, 92768, 92864, 93008, 120782, 120792, 120802,
      120812, 120822, 123200, 123632, 125264, 130032 }

IsDigit(c) == \/ (48 <= c /\ c <= 57)
              \/ (c > 127 /\ \E z \in DecimalZeros : z <= c /\ c <= z + 9)

\* The number a decimal digit stands for.
DigitValue(c) == IF c <= 57 THEN c - 48
                 ELSE c - (CHOOSE z \in DecimalZeros : z <= c /\ c <= z + 9)

MaxStrDigits == 4300

\* The line without the white space at its ends.
Strip(s) ==
    IF \A k \in DOMAIN s : IsSpace(s[k]) THEN <<>>
    ELSE LET a == IF ~IsSpace(s[1]) THEN 1
                  ELSE CHOOSE k \in DOMAIN s :
                          ~IsSpace(s[k]) /\ \A j \in 1..(k - 1) : IsSpace(s[j])
             b == IF ~IsSpace(s[Len(s)]) THEN Len(s)
                  ELSE CHOOSE k \in DOMAIN s :
                          ~IsSpace(s[k]) /\ \A j \in (k + 1)..Len(s) : IsSpace(s[j])
         IN  SubSeq(s, a, b)

Signed(s) == s # <<>> /\ Head(s) \in {43, 45}
Unsigned(s) == IF Signed(s) THEN Tail(s) ELSE s

\* Digits, and underscores (95) that stand between two digits.
DigitsWellFormed(s) ==
    /\ s # <<>>
    /\ \A k \in DOMAIN s :
          \/ IsDigit(s[k])
          \/ /\ s[k] = 95
             /\ 1 < k /\ k < Len(s)
             /\ IsDigit(s[k - 1]) /\ IsDigit(s[k + 1])

\* The digits of a well-formed line, and these without the leading zeros.
DigitsOf(s) == SelectSeq(s, IsDigit)
Significant(ds) ==
    IF \A k \in DOMAIN ds : DigitValue(ds[k]) = 0 THEN <<>>
    ELSE SubSeq(ds, CHOOSE k \in DOMAIN ds :
                       DigitValue(ds[k]) # 0 /\ \A j \in 1..(k - 1) : DigitValue(ds[j]) = 0,
                Len(ds))

RECURSIVE DigitsValue(_)
DigitsValue(ds) ==
    IF ds = <<>> THEN 0
    ELSE (DigitsValue(SubSeq(ds, 1, Len(ds) - 1)) * 10) + DigitValue(ds[Len(ds)])

\* int(line) raises ValueError
IntRaises(line) ==
    LET t == Unsigned(Strip(line))
    IN  \/ ~DigitsWellFormed(t)
        \/ Len(DigitsOf(t)) > MaxStrDigits

\* int(line), when it does not raise
IntValue(line) ==
    LET t == Strip(line)
        v == DigitsValue(Significant(DigitsOf(Unsigned(t))))
    IN  IF Head(t) = 45 THEN -v ELSE v

\* again.lower() == 'e'.  lower() maps every character to one or more
\* characters, and "e" and "E" are the only characters it maps to "e".
LowersToE(s) == s \in {<<101>>, <<69>>}

\* Variant: the lower year bound is tested with <=.
YearRejectedStrict(y) == y <= MinYear \/ y > MaxYear

\* lines 49, 52, 55: the three range tests
YearRejected(y)  == y < MinYear \/ y > MaxYear
MonthRejected(m) == m < MinMonth \/ m > MaxMonth
DayRejected(d)   == d < MinDay \/ d > MaxDay

\* What is typed at the prompts: numbers at and beside the bounds, and
\*   year:  "", 2024 in Arabic-Indic digits, a line of MaxStrDigits + 1 digits;
\*   month: "abc", " 12 ";
\*   day:   "-1", "".
TooLongLine == [k \in 1..(MaxStrDigits + 1) |-> IF k <= MaxStrDigits - 3 THEN 48
                                               ELSE <<50, 48, 50, 52>>[k - (MaxStrDigits - 3)]]
YearLines  == {str(n) : n \in {2023, 2024, 2100, 2101}}
                 \cup {<<>>, <<1634, 1632, 1634, 1636>>, TooLongLine}
MonthLines == {str(n) : n \in {0, 1, 2, 4, 12, 13}} \cup {<<97, 98, 99>>, <<32, 49, 50, 32>>}
DayLines   == {str(n) : n \in {0, 1, 31, 32}} \cup {<<45, 49>>, <<>>}
AgainLines == {<<101>>, <<69>>, <<104>>}              \* "e", "E", "h"

\* What the print() calls write, without the Turkish letters.
MsgRule     == "=================================================="
MsgSchool   == "  KARABAG H.O.AKARSEL ORTAOKULU"
MsgTitle    == "  Lisans Anahtari Olusturucu"
MsgPrompt   == "Lisans bitis tarihini girin:"
MsgYear     == "Hata: Yil 2024-2100 arasinda olmali!"
MsgMonth    == "Hata: Ay 1-12 arasinda olmali!"
MsgDay      == "Hata: Gun 1-31 arasinda olmali!"
MsgNumber   == "Hata: Gecerli bir sayi girin!"
MsgDate     == "  Bitis Tarihi:"
MsgKey      == "  LISANS ANAHTARI:"
MsgBlank    == ""
MsgQuit     == "Cikis..."
MsgEnded    == "Program sonlandi."
MsgTraceback == "Traceback: EOFError"
MsgInterrupted == "Traceback: KeyboardInterrupt"
MsgOSError  == "Traceback: OSError"
MsgEncodeError == "Traceback: UnicodeEncodeError"

\* The print() calls of main(): where main() stands before each, what it
\* writes, and where main() stands after it.
BannerLines == {"banner", "line35", "line36", "line37", "line38"}
RejectLines == {"line50", "line53", "line56"}
ShowLines   == {"show", "line63", "line64", "line65", "line66", "line67", "line68"}
PrintLines  == BannerLines \cup RejectLines \cup ShowLines
                  \cup {"top", "line74", "handler", "quitting", "ending"}

PrintText(p) ==
    CASE p \in {"banner", "line37", "line63", "line67"} -> MsgRule
      [] p = "line35" -> MsgSchool
      [] p = "line36" -> MsgTitle
      [] p \in {"line38", "show", "line65", "line68", "line74"} -> MsgBlank
      [] p = "top" -> MsgPrompt
      [] p = "line50" -> MsgYear
      [] p = "line53" -> MsgMonth
      [] p = "line56" -> MsgDay
      [] p = "line64" -> MsgDate
      [] p = "line66" -> MsgKey
      [] p = "handler" -> MsgNumber
      [] p = "quitting" -> MsgQuit
      [] p = "ending" -> MsgEnded

PrintNext(p) ==
    CASE p = "banner" -> "line35"
      [] p = "line35" -> "line36"
      [] p = "line36" -> "line37"
      [] p = "line37" -> "line38"
      [] p = "line38" -> "top"
      [] p = "top" -> "prompted"
      [] p \in RejectLines -> "continue"
      [] p = "show" -> "line63"
      [] p = "line63" -> "line64"
      [] p = "line64" -> "line65"
      [] p = "line65" -> "line66"
      [] p = "line66" -> "line67"
      [] p = "line67" -> "line68"
      [] p = "line68" -> "again"
      [] p = "line74" -> "next"
      [] p = "handler" -> "top"
      [] p = "quitting" -> "ending"
      [] p = "ending" -> "returning"

\* The print() calls whose text is not ASCII (a Turkish letter in the string
\* literal), and the input() calls whose prompt is not: lines 44, 46, 71.
NonAsciiPrints  == {"line35", "line36", "top", "line50", "line53", "line56",
                    "line64", "line66", "handler", "quitting", "ending"}
NonAsciiPrompts == {"year", "day", "again"}

\* year, month, day, license_key, again: the locals of main(), which keep their
\* values from one iteration to the next.  entered: the lines input() returned
\* in the current iteration.  called: generate_license_key was called in it.
\* printed: what was printed since the last input() returned or raised into
\* the try body.  exit_by: what ended the loop ("running" while it has not
\* ended).
MainUnbound == /\ year = 0 /\ month = 0 /\ day = 0
               /\ license_key = <<>> /\ again = <<>>
               /\ entered = <<>> /\ called = FALSE /\ exit_by = "running"

MainIdle == pc = "idle" /\ printed = <<>> /\ MainUnbound

\* main() is entered
MainInit == pc = "banner" /\ printed = <<>> /\ MainUnbound

MainOthers == <<globals, call_vars, step_vars, web_vars>>

\* one print() call returns
Prints ==
    /\ printed' = Append(printed, PrintText(pc))
    /\ pc' = PrintNext(pc)

\* lines 34-38: the banner, one print() at a time
Banner ==
    /\ pc \in BannerLines
    /\ Prints
    /\ UNCHANGED <<year, month, day, license_key, again, entered, called, exit_by,
                   MainOthers>>

\* line 41, the first line of the loop body, before the try
LoopTop ==
    /\ pc = "top"
    /\ Prints
    /\ UNCHANGED <<year, month, day, license_key, again, entered, called, exit_by,
                   MainOthers>>

\* line 43: the try is entered, line 44 calls input()
EnterTry ==
    /\ pc = "prompted"
    /\ pc' = "year"
    /\ UNCHANGED <<year, month, day, license_key, again, entered, called, exit_by,
                   printed, MainOthers>>

\* line 44: input(...) returns the line typed
ReadYear(line) ==
    /\ pc = "year"
    /\ entered' = <<line>>
    /\ called' = FALSE
    /\ printed' = <<>>
    /\ pc' = "year_read"
    /\ UNCHANGED <<year, month, day, license_key, again, exit_by, MainOthers>>

\* line 44: year = int(...)
ConvertYear ==
    /\ pc = "year_read"
    /\ IF IntRaises(entered[1])
       THEN pc' = "handler" /\ UNCHANGED year
       ELSE year' = IntValue(entered[1]) /\ pc' = "month"
    /\ UNCHANGED <<month, day, license_key, again, entered, called, exit_by, printed,
                   MainOthers>>

\* line 45: input(...) returns the line typed
ReadMonth(line) ==
    /\ pc = "month"
    /\ entered' = Append(entered, line)
    /\ printed' = <<>>
    /\ pc' = "month_read"
    /\ UNCHANGED <<year, month, day, license_key, again, called, exit_by, MainOthers>>

\* line 45: month = int(...)
ConvertMonth ==
    /\ pc = "month_read"
    /\ IF IntRaises(entered[2])
       THEN pc' = "handler" /\ UNCHANGED month
       ELSE month' = IntValue(entered[2]) /\ pc' = "day"
    /\ UNCHANGED <<year, day, license_key, again, entered, called, exit_by, printed,
                   MainOthers>>

\* line 46: input(...) returns the line typed
ReadDay(line) ==
    /\ pc = "day"
    /\ entered' = Append(entered, line)
    /\ printed' = <<>>
    /\ pc' = "day_read"
    /\ UNCHANGED <<year, month, day, license_key, again, called, exit_by, MainOthers>>

\* line 46: day = int(...)
ConvertDay ==
    /\ pc = "day_read"
    /\ IF IntRaises(entered[3])
       THEN pc' = "handler" /\ UNCHANGED day
       ELSE day' = IntValue(entered[3]) /\ pc' = "tests"
    /\ UNCHANGED <<year, month, license_key, again, entered, called, exit_by, printed,
                   MainOthers>>

\* lines 49, 52, 55, 60: the first range test that fails goes to its print();
\* when none fails, line 60 calls generate_license_key(year, month, day)
RangeTests ==
    /\ pc = "tests"
    /\ IF YearRejected(year)
       THEN pc' = "line50" /\ UNCHANGED called
       ELSE IF MonthRejected(month)
       THEN pc' = "line53" /\ UNCHANGED called
       ELSE IF DayRejected(day)
       THEN pc' = "line56" /\ UNCHANGED called
       ELSE called' = TRUE /\ pc' = "calling"
    /\ UNCHANGED <<year, month, day, license_key, again, entered, exit_by, printed,
                   MainOthers>>

\* line 50, 53 or 56: the message of the test that failed
Reject ==
    /\ pc \in RejectLines
    /\ Prints
    /\ UNCHANGED <<year, month, day, license_key, again, entered, called, exit_by,
                   MainOthers>>

\* line 51, 54 or 57: continue, to line 41
Continue ==
    /\ pc = "continue"
    /\ pc' = "top"
    /\ UNCHANGED <<year, month, day, license_key, again, entered, called, exit_by,
                   printed, MainOthers>>

\* line 60: generate_license_key returns and license_key is bound.  An
\* exception of the call could only be the UnicodeEncodeError of line 15, a
\* ValueError.
BindKey ==
    /\ pc = "calling"
    /\ LET o == LicenseKeyIn(globals, year, month, day)
       IN  IF o.raised # ""
           THEN pc' = "handler" /\ UNCHANGED license_key
           ELSE license_key' = o.result /\ pc' = "show"
    /\ UNCHANGED <<year, month, day, again, entered, called, exit_by, printed,
                   MainOthers>>

\* lines 62-68: the key is printed, one print() at a time; then line 71 calls
\* input()
ShowKey ==
    /\ pc \in ShowLines
    /\ Prints
    /\ UNCHANGED <<year, month, day, license_key, again, entered, called, exit_by,
                   MainOthers>>

\* line 71: input(...) returns the line typed
ReadAgain(line) ==
    /\ pc = "again"
    /\ entered' = Append(entered, line)
    /\ printed' = <<>>
    /\ pc' = "again_read"
    /\ UNCHANGED <<year, month, day, license_key, again, called, exit_by, MainOthers>>

\* line 71: again = ...
BindAgain ==
    /\ pc = "again_read"
    /\ again' = entered[Len(entered)]
    /\ pc' = "answer"
    /\ UNCHANGED <<year, month, day, license_key, entered, called, exit_by, printed,
                   MainOthers>>

\* lines 72-73: break unless the answer is 'e'
Answer ==
    /\ pc = "answer"
    /\ IF ~LowersToE(again)
       THEN pc' = "ending" /\ exit_by' = "break"
       ELSE pc' = "line74" /\ UNCHANGED exit_by
    /\ UNCHANGED <<year, month, day, license_key, again, entered, called, printed,
                   MainOthers>>

\* line 74: print()
BlankLine ==
    /\ pc = "line74"
    /\ Prints
    /\ UNCHANGED <<year, month, day, license_key, again, entered, called, exit_by,
                   MainOthers>>

\* the end of the try body: the next iteration, line 41
NextIteration ==
    /\ pc = "next"
    /\ pc' = "top"
    /\ UNCHANGED <<year, month, day, license_key, again, entered, called, exit_by,
                   printed, MainOthers>>

\* lines 76-77: except ValueError prints, and the loop goes on
HandleValueError ==
    /\ pc = "handler"
    /\ Prints
    /\ UNCHANGED <<year, month, day, license_key, again, entered, called, exit_by,
                   MainOthers>>

\* main() is in an input()
AtPrompt == pc \in {"year", "month", "day", "again"}
\* main() is in the try body, lines 44-74
InTry == pc \in ({"year", "year_read", "month", "month_read", "day", "day_read",
                  "tests", "continue", "calling", "again", "again_read",
                  "answer", "line74", "next"} \cup RejectLines \cup ShowLines)
Running == InTry \/ pc \in BannerLines
                 \/ pc \in {"top", "prompted", "handler", "quitting", "ending",
                            "returning"}

\* An exception that no except clause catches where it is raised leaves
\* main() with its traceback, after the call that raised it has written what
\* it wrote.  It ends the loop when the loop was entered and nothing had ended
\* it.
Leaves(exception, written, traceback) ==
    /\ pc' = "crashed"
    /\ exit_by' = IF exit_by = "running" /\ pc \notin BannerLines THEN exception
                                                                 ELSE exit_by
    /\ printed' = printed \o written \o <<traceback>>
    /\ UNCHANGED <<year, month, day, license_key, again, entered, called, MainOthers>>

\* Ctrl-C.  In the try body it is caught by line 78.  Anywhere else (the
\* banner, line 41, the handlers, line 82, the return) no except clause covers
\* it and it leaves main().
KeyboardInterrupt ==
    /\ Running
    /\ IF InTry
       THEN /\ pc' = "quitting"
            /\ exit_by' = "KeyboardInterrupt"
            /\ UNCHANGED <<year, month, day, license_key, again, entered, called,
                           printed, MainOthers>>
       ELSE Leaves("KeyboardInterrupt", <<>>, MsgInterrupted)

\* lines 79-80: print("\nÇıkış...") and break
Quit ==
    /\ pc = "quitting"
    /\ Prints
    /\ UNCHANGED <<year, month, day, license_key, again, entered, called, exit_by,
                   MainOthers>>

\* line 82, after the loop
End ==
    /\ pc = "ending"
    /\ Prints
    /\ UNCHANGED <<year, month, day, license_key, again, entered, called, exit_by,
                   MainOthers>>

\* main() returns after line 82
Return ==
    /\ pc = "returning"
    /\ pc' = "exited"
    /\ UNCHANGED <<year, month, day, license_key, again, entered, called, exit_by,
                   printed, MainOthers>>

\* input() at the end of standard input raises EOFError, which no except
\* clause of main() names: it leaves main().
EndOfInput ==
    /\ AtPrompt
    /\ Leaves("EOFError", <<>>, MsgTraceback)

\* input() meets bytes that are no text in the encoding of standard input and
\* raises UnicodeDecodeError, a ValueError: line 76 catches it.
UndecodableInput ==
    /\ AtPrompt
    /\ pc' = "handler"
    /\ printed' = <<>>
    /\ IF pc = "year"
       THEN entered' = <<>> /\ called' = FALSE
       ELSE UNCHANGED <<entered, called>>
    /\ UNCHANGED <<year, month, day, license_key, again, exit_by, MainOthers>>

\* A print(), or an input() writing its prompt or reading, fails with an
\* OSError (a closed pipe, a full disk): neither except clause names it, and
\* it leaves main() from any line.  print() writes its text and then its end
\* "\n": the write of the text fails and nothing of the call is written, or
\* the text is written and the write of the end fails.
OSError ==
    /\ pc \in PrintLines \/ AtPrompt
    /\ \E written \in (IF pc \in PrintLines THEN {<<>>, <<PrintText(pc)>>}
                                            ELSE {<<>>}) :
          Leaves("OSError", written, MsgOSError)

\* A print() of a text with Turkish letters, or an input() with such a prompt,
\* fails with a UnicodeEncodeError on a standard output that cannot encode
\* them.  It is a ValueError: raised in the try body, line 76 catches it and
\* line 77 prints (and may raise it again); raised by the banner, by line 41
\* or by line 77, 79 or 82, it leaves main().  The text is encoded before any
\* of it is written: the failing call has written nothing, and an input()
\* that fails so has read nothing.
UnicodeEncodeError ==
    /\ pc \in NonAsciiPrints \/ pc \in NonAsciiPrompts
    /\ IF InTry
       THEN /\ pc' = "handler"
            /\ IF pc = "year"
               THEN entered' = <<>> /\ called' = FALSE
               ELSE UNCHANGED <<entered, called>>
            /\ printed' = IF AtPrompt THEN <<>> ELSE printed
            /\ UNCHANGED <<year, month, day, license_key, again, exit_by, MainOthers>>
       ELSE Leaves("UnicodeEncodeError", <<>>, MsgEncodeError)

MainNext == \/ Banner
            \/ LoopTop
            \/ EnterTry
            \/ \E line \in YearLines : ReadYear(line)
            \/ ConvertYear
            \/ \E line \in MonthLines : ReadMonth(line)
            \/ ConvertMonth
            \/ \E line \in DayLines : ReadDay(line)
            \/ ConvertDay
            \/ RangeTests
            \/ Reject
            \/ Continue
            \/ BindKey
            \/ ShowKey
            \/ \E line \in AgainLines : ReadAgain(line)
            \/ BindAgain
            \/ Answer
            \/ BlankLine
            \/ NextIteration
            \/ HandleValueError
            \/ KeyboardInterrupt
            \/ Quit
            \/ End
            \/ Return
            \/ EndOfInput
            \/ UndecodableInput
            \/ OSError
            \/ UnicodeEncodeError

-----------------------------------------------------------------------------
(* sinav_analiz_FINAL/app.py.  One browser session against the application:  *)
(* session is the dict of the session cookie, users and analizler the tables, *)
(* request and response the last exchange, body_ran the view function whose   *)
(* body that exchange ran ("none" when a decorator or no view answered).      *)

\* How many rows the analizler table may take.
MaxRows == 2

\* werkzeug: a stored hash matches exactly the password it was made from.
generate_password_hash(pw) == [method |-> "werkzeug", of |-> pw]
check_password_hash(pwhash, pw) == pwhash.of = pw

\* init_db(): the default admin row
AdminRow == [id |-> 1, username |-> "ogunkayacan",
             password |-> generate_password_hash("6731213"),
             full_name |-> "Ogun Kayacan", class |-> "Mudur", role |-> "admin"]
\* a row of a database file that already holds a student (role DEFAULT 'student')
StudentRow == [id |-> 2, username |-> "ogrenci",
               password |-> generate_password_hash("sifre"),
               full_name |-> "Ogrenci Bir", class |-> "8A", role |-> "student"]

Usernames == {"ogunkayacan", "ogrenci", "yok"}
Passwords == {"6731213", "sifre", "yanlis"}
SinavAdlari == {"LGS-1", "LGS-2"}

EmptySession == [k \in {} |-> ""]
NoRequest  == [route |-> "", method |-> "", username |-> "", password |-> "", form |-> ""]
NoResponse == [kind |-> "", target |-> "", flash |-> "", data |-> {}]

Req(route, method) ==
    [route |-> route, method |-> method, username |-> "", password |-> "", form |-> ""]
Redirect(target, flash) == [kind |-> "redirect", target |-> target, flash |-> flash, data |-> {}]
Render(template, flash, data) ==
    [kind |-> "render", target |-> template, flash |-> flash, data |-> data]

WebIdle == /\ session = EmptySession /\ users = {} /\ analizler = <<>>
           /\ request = NoRequest /\ response = NoResponse /\ body_ran = "idle"

\* The application starts: a fresh database holds the admin, an existing one
\* may hold students as well.
WebInit == /\ session = EmptySession
           /\ users \in {{AdminRow}, {AdminRow, StudentRow}}
           /\ analizler = <<>>
           /\ request = NoRequest /\ response = NoResponse /\ body_ran = "none"

WebOthers == <<globals, call_vars, step_vars, main_vars>>

\* 'user_id' in session
LoggedIn == "user_id" \in DOMAIN session
\* session.get('role')
SessionRole == IF "role" \in DOMAIN session THEN session.role ELSE "None"

\* login_required, lines 67-69: the request is turned away
TurnedAway(req) ==
    /\ request' = req
    /\ response' = Redirect("login", "Lutfen giris yapin")
    /\ body_ran' = "none"
    /\ UNCHANGED <<session, users, analizler, WebOthers>>

\* index(), lines 74-78
Index ==
    /\ request' = Req("/", "GET")
    /\ response' = IF LoggedIn THEN Redirect("dashboard", "") ELSE Redirect("login", "")
    /\ body_ran' = "index"
    /\ UNCHANGED <<session, users, analizler, WebOthers>>

\* login(), GET: line 100
LoginGet ==
    /\ request' = Req("/login", "GET")
    /\ response' = Render("login.html", "", {})
    /\ body_ran' = "login"
    /\ UNCHANGED <<session, users, analizler, WebOthers>>

\* SELECT * FROM users WHERE username = ?   (username is UNIQUE)
UsersNamed(username) == {u \in users : u.username = username}

\* Variant: the password is not compared, "if user:".
LoginPostAnyPassword(username, password) ==
    /\ request' = [Req("/login", "POST") EXCEPT !.username = username,
                                                  !.password = password]
    /\ body_ran' = "login"
    /\ IF UsersNamed(username) # {}
       THEN \E u \in UsersNamed(username) :
              /\ session' = [user_id |-> u.id, username |-> u.username,
                             full_name |-> u.full_name, role |-> u.role]
              /\ response' = Redirect("dashboard", "Hos geldiniz")
       ELSE /\ response' = Render("login.html", "Kullanici adi veya sifre hatali", {})
            /\ UNCHANGED session
    /\ UNCHANGED <<users, analizler, WebOthers>>

\* login(), POST: lines 83-100
LoginPost(username, password) ==
    /\ request' = [Req("/login", "POST") EXCEPT !.username = username,
                                                  !.password = password]
    /\ body_ran' = "login"
    /\ IF \E u \in UsersNamed(username) : check_password_hash(u.password, password)
       THEN \E u \in UsersNamed(username) :
              /\ session' = [k \in DOMAIN session \cup {"user_id", "username",
                                                        "full_name", "role"} |->
                               CASE k = "user_id"   -> u.id
                                 [] k = "username"  -> u.username
                                 [] k = "full_name" -> u.full_name
                                 [] k = "role"      -> u.role
                                 [] OTHER           -> session[k]]
              /\ response' = Redirect("dashboard", "Hos geldiniz")
       ELSE /\ response' = Render("login.html", "Kullanici adi veya sifre hatali", {})
            /\ UNCHANGED session
    /\ UNCHANGED <<users, analizler, WebOthers>>

\* logout(), lines 102-106
Logout ==
    /\ request' = Req("/logout", "GET")
    /\ session' = EmptySession
    /\ response' = Redirect("login", "Cikis yapildi")
    /\ body_ran' = "logout"
    /\ UNCHANGED <<users, analizler, WebOthers>>

\* SELECT * FROM analizler WHERE user_id = ?   (as a set: rows made in the same
\* second have no defined order under ORDER BY created_at)
RowsOf(uid) == {analizler[n] : n \in {k \in DOMAIN analizler : analizler[k].user_id = uid}}

\* dashboard(), lines 108-119
Dashboard ==
    IF ~LoggedIn THEN TurnedAway(Req("/dashboard", "GET"))
    ELSE /\ request' = Req("/dashboard", "GET")
         /\ response' = Render("dashboard.html", "", RowsOf(session.user_id))
         /\ body_ran' = "dashboard"
         /\ UNCHANGED <<session, users, analizler, WebOthers>>

\* yeni_analiz(), GET: line 145
YeniAnalizGet ==
    IF ~LoggedIn THEN TurnedAway(Req("/yeni-analiz", "GET"))
    ELSE /\ request' = Req("/yeni-analiz", "GET")
         /\ response' = Render("yeni_analiz.html", "", {})
         /\ body_ran' = "yeni_analiz"
         /\ UNCHANGED <<session, users, analizler, WebOthers>>

\* yeni_analiz(), POST: lines 124-143
YeniAnalizPost(sinav_adi) ==
    IF ~LoggedIn THEN TurnedAway([Req("/yeni-analiz", "POST") EXCEPT !.form = sinav_adi])
    ELSE /\ request' = [Req("/yeni-analiz", "POST") EXCEPT !.form = sinav_adi]
         /\ analizler' = Append(analizler, [id |-> Len(analizler) + 1,
                                            user_id |-> session.user_id,
                                            sinav_adi |-> sinav_adi])
         /\ response' = Redirect("dashboard", "Analiz kaydedildi!")
         /\ body_ran' = "yeni_analiz"
         /\ UNCHANGED <<session, users, WebOthers>>

\* SELECT * FROM users WHERE role = "student"
Ogrenciler == {u \in users : u.role = "student"}

\* admin_panel(), lines 147-158
AdminPanel ==
    IF ~LoggedIn THEN TurnedAway(Req("/admin", "GET"))
    ELSE /\ request' = Req("/admin", "GET")
         /\ response' = IF SessionRole # "admin"
                        THEN Redirect("dashboard", "Yetkiniz yok")
                        ELSE Render("admin.html", "", Ogrenciler)
         /\ body_ran' = "admin_panel"
         /\ UNCHANGED <<session, users, analizler, WebOthers>>

WebNext == \/ Index
           \/ LoginGet
           \/ \E username \in Usernames, password \in Passwords : LoginPost(username, password)
           \/ Logout
           \/ Dashboard
           \/ YeniAnalizGet
           \/ \E sinav_adi \in SinavAdlari :
                 Len(analizler) < MaxRows /\ YeniAnalizPost(sinav_adi)
           \/ AdminPanel

-----------------------------------------------------------------------------
(* Specifications *)

\* main() run at a terminal
Init == GlobInit /\ CallIdle /\ StepIdle /\ MainInit /\ WebIdle
Next == MainNext
Spec == Init /\ [][Next]_vars

\* generate_license_key called once, with any integers
InitKey == /\ GlobInit /\ StepIdle /\ MainIdle /\ WebIdle
           /\ calls = <<>>
           /\ \E y \in KeyYears, m \in KeyMonths, d \in KeyDays :
                 args = <<[year |-> y, month |-> m, day |-> d]>>
NextKey == CallArgs
SpecKey == InitKey /\ [][NextKey]_vars

\* generate_license_key called again and again
InitCalls == GlobInit /\ CallIdle /\ StepIdle /\ MainIdle /\ WebIdle
NextCalls == CallAny
SpecCalls == InitCalls /\ [][NextCalls]_vars

\* one call followed line by line
InitSteps == GlobInit /\ CallIdle /\ MainIdle /\ WebIdle /\ (StepInitKey \/ StepInitCode)
NextSteps == \/ FormatMonthDay
             \/ EnterCode
             \/ Encode
             \/ FoldByte
             \/ StartCode
             \/ EmitChar
             \/ ReturnCode
             \/ ReturnKey
SpecSteps == InitSteps /\ [][NextSteps]_vars

\* the web application
InitWeb == GlobInit /\ CallIdle /\ StepIdle /\ MainIdle /\ WebInit
NextWeb == WebNext
SpecWeb == InitWeb /\ [][NextWeb]_vars

-----------------------------------------------------------------------------
(* Properties *)

\* The 32 symbols: A-Z without I and O, and the digits 2-9.
Alphabet32 == ((65..90) \ {73, 79}) \cup (50..57)
\* "ABCDEFGHJKLMNPQRSTUVWXYZ23456789"
AlphabetString ==
    <<65, 66, 67, 68, 69, 70, 71, 72, 74, 75, 76, 77, 78, 80, 81, 82,
      83, 84, 85, 86, 87, 88, 89, 90, 50, 51, 52, 53, 54, 55, 56, 57>>

AllDigits(s) == \A k \in DOMAIN s : 48 <= s[k] /\ s[k] <= 57

\* The number a string of decimal digits denotes.
RECURSIVE Decimal(_)
Decimal(s) == IF s = <<>> THEN 0
              ELSE (Decimal(SubSeq(s, 1, Len(s) - 1)) * 10) + (s[Len(s)] - 48)

\* The last four characters of a key.
CodeOfKey(key) == SubSeq(key, Len(key) - 3, Len(key))

CallDate(c) == <<c.year, c.month, c.day>>

\* C1: for every year in 2024..2100, month in 1..12 and day in 1..31 the key
\* returned by generate_license_key is "KBOA-" YEAR "-" MONTHDAY "-" CODE: YEAR
\* the year in decimal without padding, MONTHDAY exactly four digits (two for
\* the month, two for the day, zero-padded), CODE the four characters
\* generate_verification_code(str(year), MONTHDAY) returns.
C1_KeyFormat ==
    \A n \in DOMAIN calls :
        LET c   == calls[n]
            key == c.result
            yr  == SubSeq(key, 6, 9)
            md  == SubSeq(key, 11, 14)
        IN  ValidDate(c.year, c.month, c.day) =>
               /\ c.raised = ""
               /\ Len(key) = 19
               /\ SubSeq(key, 1, 5) = <<75, 66, 79, 65, 45>>
               /\ AllDigits(yr) /\ yr[1] # 48 /\ Decimal(yr) = c.year
               /\ key[10] = 45
               /\ AllDigits(md)
               /\ Decimal(SubSeq(md, 1, 2)) = c.month
               /\ Decimal(SubSeq(md, 3, 4)) = c.day
               /\ key[15] = 45
               /\ generate_verification_code(yr, md).raised = ""
               /\ Len(generate_verification_code(yr, md).result) = 4
               /\ SubSeq(key, 16, 19) = generate_verification_code(yr, md).result

\* A key was returned for a valid date whose month and day both need padding.
C1_Witness ==
    /\ calls # <<>>
    /\ ValidDate(calls[1].year, calls[1].month, calls[1].day)
    /\ calls[1].month < 10 /\ calls[1].day < 10
    /\ Len(calls[1].result) = 19

\* The code built so far, and the code returned, are made of the 32 symbols.
CodeInAlphabet ==
    /\ Cardinality(Alphabet32) = 32
    /\ \A k \in DOMAIN code : code[k] \in Alphabet32 /\ code[k] \notin {48, 49, 73, 79}
    /\ s_pc \in {"L22", "L31", "done"} =>
          /\ Len(code) = i + 1
          /\ \A k \in 0..3 : ShiftAnd31(hash_val, k * 5) \in 0..31
    /\ s_pc \in {"L31", "done"} => Len(code) = 4
    /\ s_pc = "done" =>
          /\ s_raised = ""
          /\ Len(CodeOfKey(s_result)) = 4
          /\ CodeOfKey(s_result) = code
          /\ s_args = <<>> => s_result = code

\* C2: whatever the two argument strings, generate_verification_code returns
\* a code of exactly 4 characters, each one of the 32 symbols and none of them
\* '0', '1', 'I' or 'O', and every alphabet index it uses is in 0..31.  The
\* function is to be total over strings; the encoding of line 15 raises
\* UnicodeEncodeError on a string that holds a lone surrogate.
C2_AsClaimed ==
    /\ CodeInAlphabet
    /\ s_pc # "raised"

\* (h * 31 + byte) mod 2^32, on 16-bit halves.
MulAdd31(h, byte) ==
    LET lo2 == (h.lo * 31) + byte
        hi2 == (h.hi * 31) + (lo2 \div 65536)
    IN  [hi |-> hi2 % 65536, lo |-> lo2 % 65536]

\* The polynomial hash of the first n bytes of bs: tr[k + 1] is its value
\* after k bytes, starting from 0.
RECURSIVE Poly31Trace(_, _, _)
Poly31Trace(tr, bs, n) ==
    IF Len(tr) > n THEN tr
    ELSE Poly31Trace(Append(tr, MulAdd31(tr[Len(tr)], bs[Len(tr)])), bs, n)

\* C3: the accumulator starts at 0 and after every byte equals
\* (hash * 31 + byte) mod 2^32 of its previous value, so the shift-subtract
\* update agrees with the multiply-add form; it always lies in 0..2^32-1.
C3_RollingHash ==
    /\ hash_val.hi \in 0..65535 /\ hash_val.lo \in 0..65535
    /\ s_pc \in {"idle", "L29", "L30", "L14"} => hash_val = [hi |-> 0, lo |-> 0]
    /\ s_pc \in {"L18", "L22", "L31", "done"} =>
          /\ pos <= Len(bytes_data)
          /\ hash_val = Poly31Trace(<<[hi |-> 0, lo |-> 0]>>, bytes_data, pos)[pos + 1]

\* All 38 bytes of the known vector are folded; the value, 2490746330, is
\* above 2^31 and was reached by wrapping.
C3_Witness ==
    /\ s_pc = "L18" /\ pos = 38 /\ pos = Len(bytes_data)
    /\ s_args = <<[year |-> 2027, month |-> 1, day |-> 15]>>
    /\ hash_val = [hi |-> 38005, lo |-> 50650]

\* Bits 0..19 of the hash, and the hash with its bits 20..31 replaced by t.
Low20(h) == ((h.hi % 16) * 65536) + h.lo
WithTopBits(h, t) == [hi |-> (h.hi % 16) + (16 * t), lo |-> h.lo]
TopBitSamples == {0, 1, 2730, 4095}

\* C4: the character at position i (0..3) is CHARS[(hash >> 5i) & 31], so
\* position 0 encodes bits 0-4 and position 3 bits 15-19; bits 20..31 are used
\* by no position: hashes equal modulo 2^20 give the same code.
C4_FiveBitFields ==
    s_pc \in {"L22", "L31", "done"} =>
       /\ \A k \in DOMAIN code :
             code[k] = AlphabetString[((Low20(hash_val) \div (32 ^ (k - 1))) % 32) + 1]
       /\ \A t \in TopBitSamples :
             \A k \in DOMAIN code : CodeChar(WithTopBits(hash_val, t), k - 1) = code[k]

\* A code of four characters was built from a hash with bits set above bit 19.
C4_Witness ==
    /\ s_pc = "done" /\ Len(code) = 4
    /\ hash_val.hi >= 16

SecretKeyText ==        \* "HatipoğluÖmerAkarsel2024", ğ = U+011F, Ö = U+00D6
    <<72, 97, 116, 105, 112, 111, 287, 108, 117, 214, 109, 101,
      114, 65, 107, 97, 114, 115, 101, 108, 50, 48, 50, 52>>
SecretKeyBytes ==
    <<72, 97, 116, 105, 112, 111, 196, 159, 108, 117, 195, 150, 109, 101,
      114, 65, 107, 97, 114, 115, 101, 108, 50, 48, 50, 52>>
KnownVectorBytes ==
    <<75, 66, 79, 65, 50, 48, 50, 55, 48, 49, 49, 53>> \o SecretKeyBytes
KnownVectorKey ==       \* "KBOA-2027-0115-4QTM"
    <<75, 66, 79, 65, 45, 50, 48, 50, 55, 45, 48, 49, 49, 53, 45, 52, 81, 84, 77>>

TwoDigits(n) == <<48 + (n \div 10), 48 + (n % 10)>>
FourDigits(n) == <<48 + (n \div 1000), 48 + ((n \div 100) % 10),
                   48 + ((n \div 10) % 10), 48 + (n % 10)>>

\* C5: the bytes hashed are the UTF-8 encoding of "KBOA", the decimal year, the
\* four-digit month-day and the secret, in this order; the year gives its
\* ASCII digits and each of the two non-ASCII letters of the secret two bytes.
\* For 2027-01-15 that is 38 bytes, and the code of the key returned is the one
\* derived from their rolling hash.
C5_HashedBytes ==
    s_pc \in {"L18", "L22", "L31", "done"} =>
       /\ input_str = <<75, 66, 79, 65>> \o c_year \o c_month_day \o SecretKeyText
       /\ Len(bytes_data) >= 4 + 26
       /\ SubSeq(bytes_data, 1, 4) = <<75, 66, 79, 65>>
       /\ SubSeq(bytes_data, Len(bytes_data) - 25, Len(bytes_data)) = SecretKeyBytes
       /\ (s_args # <<>> /\ ValidDate(s_args[1].year, s_args[1].month, s_args[1].day)) =>
             bytes_data = <<75, 66, 79, 65>> \o FourDigits(s_args[1].year)
                             \o TwoDigits(s_args[1].month) \o TwoDigits(s_args[1].day)
                             \o SecretKeyBytes
       /\ s_args = <<[year |-> 2027, month |-> 1, day |-> 15]>> =>
             /\ bytes_data = KnownVectorBytes
             /\ Len(bytes_data) = 38
             /\ s_pc # "L18" => pos = 38 /\ hash_val = [hi |-> 38005, lo |-> 50650]
             /\ s_pc = "done" => s_result = KnownVectorKey

\* generate_license_key(2027, 1, 15) has returned.
C5_Witness ==
    /\ s_pc = "done"
    /\ s_args = <<[year |-> 2027, month |-> 1, day |-> 15]>>
    /\ pos = 38
    /\ s_result = KnownVectorKey

\* C6: two calls of generate_license_key with the same arguments return the
\* same string, whatever was called in between and in whatever order; the
\* globals SCHOOL_CODE, SECRET_KEY and CHARS the result is computed from keep
\* the values of lines 8-10 through every call.
C6_Deterministic ==
    /\ \A a, b \in DOMAIN calls :
          CallDate(calls[a]) = CallDate(calls[b]) => calls[a].result = calls[b].result
    /\ globals = [SCHOOL_CODE |-> <<75, 66, 79, 65>>,
                  SECRET_KEY |-> SecretKeyText,
                  CHARS |-> AlphabetString]

\* The same date was formatted twice, with another date in between.
C6_Witness ==
    /\ Len(calls) = 3
    /\ CallDate(calls[1]) = CallDate(calls[3])
    /\ CallDate(calls[2]) # CallDate(calls[1])
    /\ calls[1].result = calls[3].result
    /\ calls[2].result # calls[1].result

\* C7, as claimed: a call of generate_license_key with a year outside
\* 2024..2100, a month outside 1..12 or a day outside 1..31 fails with an
\* invalid-date-component error and returns no key.
C7_RejectsInvalid ==
    \A n \in DOMAIN calls :
        ~ValidDate(calls[n].year, calls[n].month, calls[n].day) =>
            calls[n].raised = "InvalidDateComponent" /\ calls[n].result = <<>>

\* C7, amended: generate_license_key tests no range.  Called with integers
\* outside the ranges it raises nothing and returns the key built from them,
\* "KBOA-" str(year) "-" month and day each padded to at least two characters
\* "-" and the four-character code of those strings.
C7_FormatsInvalid ==
    \A n \in DOMAIN calls :
        LET c  == calls[n]
            md == Format02d(c.month) \o Format02d(c.day)
        IN  ~ValidDate(c.year, c.month, c.day) =>
               /\ c.raised = ""
               /\ Len(c.result) = 5 + Len(str(c.year)) + 1 + Len(md) + 1 + 4
               /\ SubSeq(c.result, 1, Len(c.result) - 4) =
                     <<75, 66, 79, 65, 45>> \o str(c.year) \o <<45>> \o md \o <<45>>
               /\ CodeOfKey(c.result) = generate_verification_code(str(c.year), md).result
               /\ \A k \in 1..4 : CodeOfKey(c.result)[k] \in Alphabet32

\* generate_license_key(2023, 0, 32) has returned "KBOA-2023-0032-SGHD".
C7_Witness ==
    /\ calls # <<>>
    /\ CallDate(calls[1]) = <<2023, 0, 32>>
    /\ calls[1].raised = ""
    /\ calls[1].result = <<75, 66, 79, 65, 45, 50, 48, 50, 51, 45, 48, 48, 51, 50,
                           45, 83, 71, 72, 68>>

\* The lines read in this iteration are three integers within the ranges.
Accepted(e) ==
    /\ Len(e) >= 3
    /\ \A k \in 1..3 : ~IntRaises(e[k])
    /\ ValidDate(IntValue(e[1]), IntValue(e[2]), IntValue(e[3]))

\* The last line read is no integer, or the three read are out of range.
Refused(e) ==
    /\ e # <<>>
    /\ Len(e) <= 3
    /\ \/ IntRaises(e[Len(e)])
       \/ Len(e) = 3 /\ ~Accepted(e)

\* The loop has ended: main() is after it, or has left it, and not from the
\* banner.  The iteration is over: the loop is at its top again, or has ended.
LoopEnded == /\ pc \in {"quitting", "ending", "returning", "exited", "crashed"}
             /\ exit_by # "running"
IterationOver == LoopEnded \/ pc \in {"top", "prompted", "year"}

\* generate_license_key is called only with three integers within the
\* ranges, the ones read, and the key shown is the one it returns.
CalledOnlyIfAccepted ==
    called => /\ Accepted(entered)
              /\ year = IntValue(entered[1])
              /\ month = IntValue(entered[2])
              /\ day = IntValue(entered[3])
              /\ (pc \in ShowLines \/ pc \in {"again", "again_read", "answer",
                                                "line74", "next"}
                     \/ exit_by = "break") =>
                    license_key = generate_license_key(year, month, day).result

\* An iteration that read three integers within the ranges has called
\* generate_license_key by its end.
AcceptedIsCalled == (IterationOver /\ Accepted(entered)) => called

\* The same, unless a keyboard interrupt ended the iteration before line 60.
AcceptedIsCalledUnlessInterrupted ==
    (IterationOver /\ Accepted(entered)) => (called \/ exit_by = "KeyboardInterrupt")

ErrorMessages == {MsgYear, MsgMonth, MsgDay, MsgNumber}

\* While nothing has ended the loop, a refused line is answered by an error
\* message and then by the first prompt; no key is generated.  Until the
\* message is printed main() is converting or testing what was read, at the
\* print() of the message, or entering its handler.
RefusedRetries ==
    (exit_by = "running" /\ Refused(entered)) =>
        /\ ~called
        /\ \/ pc \in {"year_read", "month_read", "day_read", "tests", "handler"}
                     \cup RejectLines
              /\ printed = <<>>
           \/ pc \in {"continue", "top"} /\ Len(printed) = 1 /\ printed[1] \in ErrorMessages
           \/ /\ pc \in {"prompted", "year"} /\ Len(printed) = 2
              /\ printed[1] \in ErrorMessages /\ printed[2] = MsgPrompt

EndedByAnswer == /\ called /\ Len(entered) = 4 /\ exit_by = "break"
                 /\ ~LowersToE(entered[4])

\* C8, as claimed: in every iteration of main's loop generate_license_key is
\* called iff the three values entered are integers with 2024 <= year <= 2100,
\* 1 <= month <= 12, 1 <= day <= 31; a refused or non-numeric input is
\* answered by an error and a new prompt, without a key; and the loop ends
\* only after a key was generated and the answer is not 'e', or on a keyboard
\* interrupt.
C8_LoopAsClaimed ==
    /\ CalledOnlyIfAccepted
    /\ AcceptedIsCalled
    /\ RefusedRetries
    /\ LoopEnded => (EndedByAnswer \/ exit_by = "KeyboardInterrupt")

\* What leaves main() without being handled: Ctrl-C outside the try body, the
\* EOFError of input(), an OSError of print() or input(), a UnicodeEncodeError
\* of print() outside the try body.
Unhandled == {"KeyboardInterrupt", "EOFError", "OSError", "UnicodeEncodeError"}

\* C8, amended: as claimed, except that (1) the loop also ends when an
\* exception leaves main(): the EOFError of input() at the end of standard
\* input, an OSError of print() or input(), a UnicodeEncodeError of print()
\* raised outside the try body (line 41, line 77); (2) an iteration that a
\* keyboard interrupt ends between the reading of the third value and line 60
\* has read three values within the ranges and called nothing; (3) a refused
\* input is answered by an error and a new prompt while none of these has
\* ended the loop.
C8_LoopAmended ==
    /\ CalledOnlyIfAccepted
    /\ AcceptedIsCalledUnlessInterrupted
    /\ RefusedRetries
    /\ LoopEnded => (EndedByAnswer \/ exit_by \in Unhandled)
    /\ exit_by \in {"OSError", "UnicodeEncodeError", "EOFError"} => pc = "crashed"

\* A key for 31 February 2024 was generated and shown, "h" ended the loop,
\* line 82 has printed and main() has returned.
C8_Witness ==
    /\ pc = "exited" /\ exit_by = "break"
    /\ called
    /\ printed = <<MsgEnded>>
    /\ year = 2024 /\ month = 2 /\ day = 31
    /\ again = <<104>>
    /\ Len(license_key) = 19

CollidingA == <<2024, 2, 10>>
CollidingB == <<2095, 1, 6>>

\* C9: the code is not unique per date: 2024-02-10 and 2095-01-06, two
\* distinct dates within the accepted ranges, get the same 4-character code.
C9_Collision ==
    \A a, b \in DOMAIN calls :
        (CallDate(calls[a]) = CollidingA /\ CallDate(calls[b]) = CollidingB) =>
            CodeOfKey(calls[a].result) = CodeOfKey(calls[b].result)

\* Keys for both dates were generated: different keys with the same code.
C9_Witness ==
    \E a, b \in DOMAIN calls :
        /\ CallDate(calls[a]) = CollidingA /\ CallDate(calls[b]) = CollidingB
        /\ ValidDate(calls[a].year, calls[a].month, calls[a].day)
        /\ ValidDate(calls[b].year, calls[b].month, calls[b].day)
        /\ calls[a].result # calls[b].result
        /\ CodeOfKey(calls[a].result) = CodeOfKey(calls[b].result)

ProtectedRoutes == {"/dashboard", "/yeni-analiz", "/admin"}
ProtectedBodies == {"dashboard", "yeni_analiz", "admin_panel"}
HasUserId(sess) == "user_id" \in DOMAIN sess

\* One exchange of the web application, from the state before it to the state
\* after it.
C10_Exchange ==
    /\ body_ran' \in ProtectedBodies => HasUserId(session)
    /\ (HasUserId(session') /\ (HasUserId(session) => session'.user_id # session.user_id)) =>
          /\ request'.route = "/login" /\ request'.method = "POST"
          /\ \E u \in users :
                /\ u.id = session'.user_id
                /\ u.username = request'.username
                /\ u.password = generate_password_hash(request'.password)
    /\ request'.route = "/logout" => ~HasUserId(session')
    /\ (~HasUserId(session) /\ request'.route \in ProtectedRoutes) =>
          /\ response'.kind = "redirect" /\ response'.target = "login"
          /\ body_ran' = "none"
          /\ analizler' = analizler /\ users' = users
    /\ (response'.kind = "render" /\ response'.target = "admin.html") =>
          /\ HasUserId(session)
          /\ session.role = "admin"
          /\ body_ran' = "admin_panel"

\* C10: the body of dashboard, yeni_analiz or admin_panel runs only while the
\* session holds a user_id; a user_id enters the session only by a login POST
\* whose password matches the stored hash of an existing user, and every
\* logout removes it; a request without it is redirected to login and writes
\* nothing; the student list is rendered only for the role 'admin'.
C10_SessionGuard == [][C10_Exchange]_vars

\* The admin, logged in, was shown the student list.
C10_Witness ==
    /\ body_ran = "admin_panel"
    /\ response.kind = "render" /\ response.target = "admin.html"
    /\ response.data = {StudentRow}
    /\ HasUserId(session) /\ session.role = "admin"

=============================================================================
